---- MODULE Spec2Model ----
(***************************************************************************)
(* Model of the web-search route handler (app/api/web-search/route.ts,     *)
(* kept as src/unnamed/part_000): POST with its helpers checkConnection    *)
(* and fetchSearchResults, the completion call and the two best-effort     *)
(* inserts into the messages table.                                        *)
(*                                                                         *)
(* A request is one run of POST.  The handler is an async function, so it  *)
(* is cut at its awaits: every action below is the code that runs from one *)
(* await to the next, and the answer of the awaited provider is the        *)
(* action's input.                                                         *)
(***************************************************************************)
EXTENDS Integers, Sequences, FiniteSets, TLC

\* ------------------------------------------------------------------------
\* Bounds
\* ------------------------------------------------------------------------

\* longest conversation history a request body carries
MaxHist == 2

\* ------------------------------------------------------------------------
\* JavaScript values, as far as the handler looks at them
\* ------------------------------------------------------------------------

Undef == [t |-> "undefined", s |-> "", n |-> 0]

Null == [t |-> "null", s |-> "", n |-> 0]

Str(s) == [t |-> "string", s |-> s, n |-> 0]

Num(n) == [t |-> "number", s |-> "", n |-> n]

\* objects are records with t = "object" and one field per property
IsObject(v) == v.t = "object"

Nullish(v) == v.t \in {"undefined", "null"}

\* truthiness, as !x, a && b and a || b test it
Truthy(v) ==
  \/ v.t = "string" /\ v.s # ""
  \/ v.t = "number" /\ v.n # 0
  \/ v.t = "object"

\* o.f for a non-nullish o (the callers guard the nullish case, which throws)
Prop(o, f) == IF IsObject(o) /\ f \in DOMAIN o THEN o[f] ELSE Undef

\* a || null
OrNull(v) == IF Truthy(v) THEN v ELSE Null

\* ------------------------------------------------------------------------
\* Environment (lines 11-15) and fixed request parameters
\* ------------------------------------------------------------------------

AZURE_DEPLOYMENT == "gpt-45-turbo"

max_tokens == 1200

\* the text of line 63, without its leading emoji (not a character of TLA+)
OfflineText == "I'm not connected to the internet. Please try again later."

\* the text of line 73, without its backquotes (not characters of TLA+)
MissingQueryText == "Missing query in request body"

UnexpectedText == "Unexpected server error"

\* ------------------------------------------------------------------------
\* Request bodies
\* ------------------------------------------------------------------------

\* a flat history entry, or the object inside a {message: ...} envelope
Turn(role, content, chat, user, assistant, seq) ==
  [t |-> "object", role |-> role, content |-> content, chat_id |-> chat,
   user_id |-> user, assistant_id |-> assistant, sequence_number |-> seq]

\* an envelope {message: inner, ...own}
Envelope(inner, own) ==
  [t |-> "object", message |-> inner, role |-> own.role,
   content |-> own.content, chat_id |-> own.chat_id, user_id |-> own.user_id,
   assistant_id |-> own.assistant_id,
   sequence_number |-> own.sequence_number]

Bare == Turn(Undef, Undef, Undef, Undef, Undef, Undef)

HistoryEntries ==
  { \* flat user turn with identifiers and a numeric sequence number
    Turn(Str("user"), Str("hi"), Str("c1"), Str("u1"), Undef, Num(7)),
    \* flat assistant turn without identifiers
    Turn(Str("assistant"), Str("hello"), Undef, Undef, Undef, Undef),
    \* envelope whose inner message carries everything, sequence number 0
    Envelope(Turn(Str("user"), Str("q0"), Str("c1"), Str("u1"), Str("a1"),
                  Num(0)), Bare),
    \* envelope with the identifiers on the envelope only, inner has no content
    Envelope(Turn(Str("user"), Undef, Undef, Undef, Undef, Undef),
             Turn(Undef, Undef, Str("c1"), Str("u1"), Undef, Num(3))),
    \* identifiers only: nothing for the prompt, no sequence number
    Turn(Undef, Undef, Str("c1"), Str("u1"), Undef, Undef),
    \* envelope whose message property is the empty string
    Envelope(Str(""),
             Turn(Str("user"), Str("old"), Str("c1"), Str("u1"), Undef,
                  Undef)),
    \* empty content, chat_id without user_id
    Turn(Str("system"), Str(""), Str("c1"), Undef, Undef, Undef),
    \* a null entry
    Null }

Histories == UNION { [1..k -> HistoryEntries] : k \in 0..MaxHist }

\* the messages property of the body: absent, or an array
MessagesValues ==
  {[isArray |-> FALSE, list |-> <<>>]}
    \cup { [isArray |-> TRUE, list |-> h] : h \in Histories }

QueryValues == {Undef, Str(""), Str("weather in Paris")}

ChatSettingsValues ==
  {Undef, [t |-> "object", model |-> Str("gpt-4"), temperature |-> Num(1)]}

\* what awaiting req.json() yields: a rejection, or the parsed object
Bodies ==
  {[parses |-> FALSE, query |-> Undef, chatSettings |-> Undef,
    messages |-> [isArray |-> FALSE, list |-> <<>>]]}
    \cup [parses : {TRUE}, query : QueryValues,
          chatSettings : ChatSettingsValues, messages : MessagesValues]

\* ------------------------------------------------------------------------
\* Search provider answers and their normalization (lines 80-92)
\* ------------------------------------------------------------------------

\* most items one search answer carries
MaxItems == 2

\* a string kept as its pieces, a blank being a piece of its own, so that
\* split(" ") can be computed
Chars(pieces) == [t |-> "string", chars |-> pieces]

RawItem(type, title, url, description, images, timestamp, website_name) ==
  [t |-> "object", type |-> type, title |-> title, url |-> url,
   description |-> description, images |-> images, timestamp |-> timestamp,
   website_name |-> website_name]

NoImages == [isArray |-> FALSE, list |-> <<>>]

Images(list) == [isArray |-> TRUE, list |-> list]

RawItems ==
  { RawItem(Str("organic"), Str("Paris Weather"), Str("https://x"),
            Str("..."), NoImages,
            Chars(<<"2024-01-01", " ", "00:00:00">>), Str("x.com")),
    RawItem(Str("images"), Undef, Str("https://y"), Undef,
            Images(<<[t |-> "object", url |-> Str("https://y/1.png")],
                     [t |-> "object", url |-> Str("https://y/2.png")]>>),
            Chars(<<"2024-02-02">>), Undef),
    RawItem(Undef, Undef, Undef, Undef, Images(<<>>), Undef, Undef) }

\* the parsed answer of the search endpoint: df.tasks?.[0]?.result?.[0]?.items
\* is either missing or an array of raw items
DfValues ==
  {[hasItems |-> FALSE, items |-> <<>>]}
    \cup { [hasItems |-> TRUE, items |-> l] :
             l \in UNION { [1..k -> RawItems] : k \in 0..MaxItems } }

\* line 81: (df...items as any[]) || []
items(df) == IF df.hasItems THEN df.items ELSE <<>>

RECURSIVE Concat(_)
\* the pieces of a string put together
Concat(pieces) ==
  IF pieces = <<>> THEN "" ELSE Head(pieces) \o Concat(Tail(pieces))

RECURSIVE BeforeBlank(_)
\* the pieces in front of the first blank
BeforeBlank(pieces) ==
  IF pieces = <<>> \/ Head(pieces) = " " THEN <<>>
  ELSE <<Head(pieces)>> \o BeforeBlank(Tail(pieces))

\* the date taken as the whole timestamp
SplitDate_Mut(timestamp) ==
  IF Nullish(timestamp) THEN Undef ELSE Str(Concat(timestamp.chars))

\* line 90: i.timestamp?.split(" ")[0]
SplitDate(timestamp) ==
  IF Nullish(timestamp) THEN Undef
  ELSE Str(Concat(BeforeBlank(timestamp.chars)))

\* line 89: i.images?.[0]?.url
FirstImageUrl(images) ==
  IF images.isArray /\ Len(images.list) > 0
  THEN Prop(images.list[1], "url") ELSE Undef

\* lines 84-92: one SearchResultItem
Normalize(i) ==
  [type |-> i.type, title |-> i.title, link |-> i.url,
   snippet |-> i.description, image |-> FirstImageUrl(i.images),
   date |-> SplitDate(i.timestamp), channel |-> i.website_name]

\* line 84: items.map(...)
search_results(its) == [k \in 1..Len(its) |-> Normalize(its[k])]

\* ------------------------------------------------------------------------
\* JSON.stringify(search_results, null, 2) (line 126)
\* ------------------------------------------------------------------------

ResultKeys == <<"type", "title", "link", "snippet", "image", "date", "channel">>

RECURSIVE JoinWith(_, _)
JoinWith(strs, sep) ==
  IF strs = <<>> THEN ""
  ELSE IF Len(strs) = 1 THEN Head(strs)
  ELSE Head(strs) \o sep \o JoinWith(Tail(strs), sep)

RECURSIVE Members(_, _)
\* the "key": "value" lines of one object; undefined properties are left out
Members(obj, keys) ==
  IF keys = <<>> THEN <<>>
  ELSE LET k == Head(keys)
           rest == Members(obj, Tail(keys))
       IN IF obj[k].t = "undefined" THEN rest
          ELSE <<"    \"" \o k \o "\": \"" \o obj[k].s \o "\"">> \o rest

StringifyItem(obj) ==
  LET ms == Members(obj, ResultKeys)
  IN IF ms = <<>> THEN "  {}"
     ELSE "  {\n" \o JoinWith(ms, ",\n") \o "\n  }"

Stringify(results) ==
  IF results = <<>> THEN "[]"
  ELSE "[\n"
       \o JoinWith([k \in 1..Len(results) |-> StringifyItem(results[k])],
                   ",\n")
       \o "\n]"

\* ------------------------------------------------------------------------
\* History reconciliation and prompt assembly (lines 102-141)
\* ------------------------------------------------------------------------

\* line 107: m.message ?? m
Unwrap(m) == IF Nullish(Prop(m, "message")) THEN m ELSE Prop(m, "message")

\* the history test with || in place of &&
Exposes_Mut(msg) == Truthy(Prop(msg, "role")) \/ Truthy(Prop(msg, "content"))

\* line 108: msg.role && msg.content
Exposes(msg) == Truthy(Prop(msg, "role")) /\ Truthy(Prop(msg, "content"))

\* m.message on a null or undefined m is a TypeError
HistoryThrows(messages) ==
  messages.isArray /\ \E k \in 1..Len(messages.list) : Nullish(messages.list[k])

TypeErrorText == "Cannot read properties of null (reading 'message')"

RECURSIVE MapFilter(_)
\* lines 105-115: map to {role, content} or null, then drop the nulls
MapFilter(list) ==
  IF list = <<>> THEN <<>>
  ELSE LET msg == Unwrap(Head(list))
       IN (IF Exposes(msg)
           THEN <<[role |-> msg.role.s, content |-> msg.content.s]>>
           ELSE <<>>) \o MapFilter(Tail(list))

\* lines 103-116
history(messages) == IF messages.isArray THEN MapFilter(messages.list) ELSE <<>>

\* the text of line 121, its dash written in ASCII
SystemText == "You are ChatGPT, a helpful assistant. You have access to up-to-date web search results below. Use them to answer the user's question fully-choose whatever structure best fits the topic. Cite sources by number when relevant."

systemMsg == [role |-> "system", content |-> SystemText]

toolMsg(results) ==
  [role |-> "assistant", name |-> "web_search_tool",
   content |-> Stringify(results)]

userMsg(query) ==
  [role |-> "user",
   content |-> "User asked: \"" \o query.s
                 \o "\". Use the search results above to craft your reply."]

\* the history spread in front of the tool and user messages
Assemble_Mut(query, results, hist) ==
  <<systemMsg>> \o hist \o <<toolMsg(results), userMsg(query)>>

\* line 138: [systemMsg, toolMsg, userMsg, ...history]
Assemble(query, results, hist) ==
  <<systemMsg, toolMsg(results), userMsg(query)>> \o hist

\* line 136: chatSettings?.temperature ?? 0
temperature(chatSettings) ==
  IF Nullish(chatSettings) \/ Nullish(Prop(chatSettings, "temperature"))
  THEN Num(0) ELSE Prop(chatSettings, "temperature")

\* lines 169, 182, 211: chatSettings?.model || AZURE_DEPLOYMENT
model(chatSettings) ==
  IF ~Nullish(chatSettings) /\ Truthy(Prop(chatSettings, "model"))
  THEN Prop(chatSettings, "model").s ELSE AZURE_DEPLOYMENT

\* the argument of client.chat.completions.create (lines 134-141)
CompletionArgs(bd, df) ==
  [model |-> AZURE_DEPLOYMENT, temperature |-> temperature(bd.chatSettings),
   max_tokens |-> max_tokens,
   messages |-> Assemble(bd.query, search_results(items(df)),
                         history(bd.messages))]

\* ------------------------------------------------------------------------
\* Persistence (lines 143-227)
\* ------------------------------------------------------------------------

HasLast(messages) == messages.isArray /\ Len(messages.list) > 0

\* lines 151-152: messages[messages.length - 1].message || messages[...]
lastUserMsg(messages) ==
  LET last == messages.list[Len(messages.list)]
  IN IF Truthy(Prop(last, "message")) THEN Prop(last, "message") ELSE last

\* lines 145-155
chat_id(messages) ==
  IF HasLast(messages) THEN OrNull(Prop(lastUserMsg(messages), "chat_id"))
  ELSE Null

RECURSIVE LatestUserId(_)
LatestUserId(list) ==
  IF list = <<>> THEN Null
  ELSE LET last == list[Len(list)]
           own == Prop(IF Truthy(Prop(last, "message"))
                       THEN Prop(last, "message") ELSE last, "user_id")
       IN IF Truthy(own) THEN own
          ELSE LatestUserId(SubSeq(list, 1, Len(list) - 1))

\* user_id taken from the latest history entry that carries one
user_id_Mut(messages) ==
  IF HasLast(messages) THEN LatestUserId(messages.list) ELSE Null

user_id(messages) ==
  IF HasLast(messages) THEN OrNull(Prop(lastUserMsg(messages), "user_id"))
  ELSE Null

assistant_id(messages) ==
  IF HasLast(messages)
  THEN OrNull(Prop(lastUserMsg(messages), "assistant_id"))
  ELSE Null

\* the cursor falling back to the length of the history
lastSeq_Mut(messages) ==
  IF HasLast(messages)
  THEN IF Prop(lastUserMsg(messages), "sequence_number").t = "number"
       THEN Prop(lastUserMsg(messages), "sequence_number").n
       ELSE Len(messages.list)
  ELSE 0

\* lines 148-160
lastSeq(messages) ==
  IF HasLast(messages)
  THEN IF Prop(lastUserMsg(messages), "sequence_number").t = "number"
       THEN Prop(lastUserMsg(messages), "sequence_number").n
       ELSE Len(messages.list) - 1
  ELSE 0

\* the content falling back to a placeholder text
assistantContent_Mut(resp) ==
  IF Len(resp.choices) = 0 \/ Nullish(resp.choices[1].content)
  THEN "No response" ELSE resp.choices[1].content.s

\* line 201: resp.choices[0]?.message?.content ?? ""
assistantContent(resp) ==
  IF Len(resp.choices) = 0 \/ Nullish(resp.choices[1].content) THEN ""
  ELSE resp.choices[1].content.s

\* the answers of a completion call that succeeds: the content of each choice
CompletionResponses ==
  {[choices |-> <<>>]}
    \cup { [choices |-> <<[content |-> c]>>] :
             c \in {Null, Str(""), Str("Sunny, 21 degrees [1].")} }

\* the messages of the errors the completion client throws; the client
\* always gives its errors a text
CompletionErrors == {"401 Access denied", "Connection error."}

\* the non-success answers of the search endpoint: status and body text
SearchErrors == {[status |-> 401, text |-> "denied"],
                 [status |-> 500, text |-> ""]}

\* the thrown text without the body of the answer
SearchErrorText_Mut(e) == "DataForSEO error " \o ToString(e.status)

\* line 53
SearchErrorText(e) ==
  "DataForSEO error " \o ToString(e.status) \o ": " \o e.text

\* the catch block answering with the generic text only
ErrorBody_Mut(message) == UnexpectedText

\* line 233: err.message || "Unexpected server error"
ErrorBody(message) == IF message = "" THEN UnexpectedText ELSE message

\* lines 173 and 202: chat_id && user_id && <text>
ShouldInsert(messages, text) ==
  Truthy(chat_id(messages)) /\ Truthy(user_id(messages)) /\ text # ""

\* lines 176-185
UserRow(bd) ==
  [chat_id |-> chat_id(bd.messages), user_id |-> user_id(bd.messages),
   assistant_id |-> assistant_id(bd.messages), role |-> "user",
   content |-> bd.query.s, model |-> model(bd.chatSettings),
   sequence_number |-> lastSeq(bd.messages) + 1, image_paths |-> <<>>]

\* lines 205-214
AssistantRow(bd, content) ==
  [chat_id |-> chat_id(bd.messages), user_id |-> user_id(bd.messages),
   assistant_id |-> assistant_id(bd.messages), role |-> "assistant",
   content |-> content, model |-> model(bd.chatSettings),
   sequence_number |-> lastSeq(bd.messages) + 2, image_paths |-> <<>>]

\* ------------------------------------------------------------------------
\* State
\* ------------------------------------------------------------------------

VARIABLES
  pc,           \* per request: where POST stands
  body,         \* per request: what req.json() yields
  connection,   \* per request: outcome of checkConnection
  search,       \* per request: outcome of fetchSearchResults
  searchFailure,\* per request: status and text of a non-success search answer
  df,           \* per request: the parsed search answer
  results,      \* per request: search_results, the normalized items
  completion,   \* per request: outcome of the completion call
  args,         \* per request: the arguments of each completion call issued
  resp,         \* per request: the completion answer
  failure,      \* per request: message of the error caught at line 230
  calls,        \* per request: how often each provider was called
  inserts,      \* per request: the inserts issued, with their outcome
  responses,    \* per request: the responses POST returned
  messagesTable,\* the rows of the messages table, in arrival order
  isTyping,     \* ChatInput: an IME composition is in progress (line 40)
  useWebSearch, \* ChatInput: the web-search toggle (line 41)
  composing,    \* the textarea: a composition has started and not ended
  userInput,    \* context: the draft text
  chatMessages, \* context: the visible message history
  isGenerating, \* context: an answer is being generated
  pickerOpen,   \* context: is...PickerOpen of the four pickers
  focus,        \* context: focusPrompt, focusFile, focusTool, focusAssistant
  sent          \* the latest invocation of handleSendMessage, if any

vars == <<pc, body, connection, search, searchFailure, df, results, completion, args,
    resp, failure,
          calls, inserts, responses, messagesTable, isTyping, useWebSearch,
          composing, userInput, chatMessages, isGenerating, pickerOpen, focus,
          sent>>

\* the state of the composer
composer == <<isTyping, useWebSearch, composing, userInput, chatMessages,
              isGenerating, pickerOpen, focus, sent>>

\* the state of the route handler
handler == <<pc, body, connection, search, searchFailure, df, results,
             completion, args, resp, failure, calls, inserts, responses,
             messagesTable>>

Pickers == {"prompt", "file", "tool", "assistant"}

\* lines 40-41 and the defaults of the context: the composer when mounted
InitComposer ==
  /\ isTyping = FALSE
  /\ useWebSearch = FALSE
  /\ composing = FALSE
  /\ userInput = ""
  /\ chatMessages = <<>>
  /\ isGenerating = FALSE
  /\ pickerOpen = [p \in Pickers |-> FALSE]
  /\ focus = [p \in Pickers |-> FALSE]
  /\ sent = <<>>

Requests == DOMAIN pc

NoResp == [choices |-> <<>>]

NoDf == [hasItems |-> FALSE, items |-> <<>>]

NoSearchFailure == [status |-> 0, text |-> ""]

InitFor(reqs, bodies) ==
  /\ pc = [r \in reqs |-> "start"]
  /\ body \in [reqs -> bodies]
  /\ connection = [r \in reqs |-> "none"]
  /\ search = [r \in reqs |-> "none"]
  /\ searchFailure = [r \in reqs |-> NoSearchFailure]
  /\ df = [r \in reqs |-> NoDf]
  /\ results = [r \in reqs |-> <<>>]
  /\ completion = [r \in reqs |-> "none"]
  /\ args = [r \in reqs |-> <<>>]
  /\ resp = [r \in reqs |-> NoResp]
  /\ failure = [r \in reqs |-> ""]
  /\ calls = [r \in reqs |-> [probe |-> 0, search |-> 0, completion |-> 0]]
  /\ inserts = [r \in reqs |-> <<>>]
  /\ responses = [r \in reqs |-> <<>>]
  /\ messagesTable = <<>>
  /\ InitComposer

\* one request, any body
Init == InitFor({1}, Bodies)

\* the bodies of a request that reaches both inserts: a query and a history
\* of one entry that carries chat_id and user_id
RaceBodies ==
  {b \in Bodies :
     /\ b.parses /\ Truthy(b.query) /\ b.chatSettings = Undef
     /\ b.messages.isArray /\ Len(b.messages.list) = 1
     /\ ShouldInsert(b.messages, "x")}

\* two invocations of POST for the same chat, given the same body
InitRace == InitFor({1, 2}, RaceBodies) /\ body[1] = body[2]

\* NextResponse.json(payload, {status}) returned from POST
Respond(r, status, key, text) ==
  /\ responses' = [responses EXCEPT ![r] =
                     Append(@, [status |-> status, key |-> key, text |-> text])]
  /\ pc' = [pc EXCEPT ![r] = "responded"]

\* lines 230-236: the catch block
Catch(r, message) ==
  /\ failure' = [failure EXCEPT ![r] = message]
  /\ Respond(r, 500, "error", ErrorBody(message))

\* ------------------------------------------------------------------------
\* POST, from await to await
\* ------------------------------------------------------------------------

\* how the GET of the probe can end: status 2xx, another status, or a throw
ProbeOutcomes == {"ok", "notOk", "networkError"}

\* checkConnection with a plain return true after the fetch in place of res.ok
checkConnection_Mut(outcome) == outcome # "networkError"

\* lines 27-30: res.ok, or false when fetch throws
checkConnection(outcome) == outcome = "ok"

\* the validation testing only for an absent query
MissingQuery_Mut(query) == query.t = "undefined"

\* line 71: !query
MissingQuery(query) == ~Truthy(query)

\* POST sending the search together with the probe
CallCheckConnection_Mut(r) ==
  /\ pc[r] = "start"
  /\ pc' = [pc EXCEPT ![r] = "awaitConnection"]
  /\ connection' = [connection EXCEPT ![r] = "pending"]
  /\ search' = [search EXCEPT ![r] = "pending"]
  /\ calls' = [calls EXCEPT ![r].probe = @ + 1, ![r].search = @ + 1]
  /\ UNCHANGED <<composer, body, results, searchFailure, df, completion, args,
                 resp, failure, inserts,
                 responses, messagesTable>>

\* lines 58-60 and 17-26: POST starts and checkConnection sends its GET
CallCheckConnection(r) ==
  /\ pc[r] = "start"
  /\ pc' = [pc EXCEPT ![r] = "awaitConnection"]
  /\ connection' = [connection EXCEPT ![r] = "pending"]
  /\ calls' = [calls EXCEPT ![r].probe = @ + 1]
  /\ UNCHANGED <<composer, body, results, searchFailure, search, df,
                 completion, args, resp, failure, inserts,
                 responses, messagesTable>>

\* lines 27-30 and 60-70: the probe returns and checkConnection yields its
\* result.  On false POST answers 503.  On true POST calls req.json() and
\* is suspended at its await; other requests run meanwhile
ConnectionReturns(r) ==
  /\ pc[r] = "awaitConnection"
  /\ \E outcome \in ProbeOutcomes :
       /\ connection' = [connection EXCEPT ![r] = outcome]
       /\ IF ~checkConnection(outcome)
          THEN Respond(r, 503, "error", OfflineText)
          ELSE /\ pc' = [pc EXCEPT ![r] = "awaitBody"]
               /\ UNCHANGED responses
  /\ UNCHANGED <<composer, body, results, searchFailure, search, df,
                 completion, args, resp, failure, calls, inserts,
                 messagesTable>>

\* lines 70-80 and 33-49: req.json() settles.  Its rejection is outside the
\* try block and leaves POST as an exception; without a query POST answers
\* 400; otherwise POST enters the try block and sends the search
ReqJsonReturns(r) ==
  /\ pc[r] = "awaitBody"
  /\ IF ~body[r].parses
     THEN /\ pc' = [pc EXCEPT ![r] = "rejected"]
          /\ UNCHANGED <<search, calls, responses>>
     ELSE IF MissingQuery(body[r].query)
     THEN /\ Respond(r, 400, "error", MissingQueryText)
          /\ UNCHANGED <<search, calls>>
     ELSE /\ pc' = [pc EXCEPT ![r] = "awaitSearch"]
          /\ search' = [search EXCEPT ![r] = "pending"]
          /\ calls' = [calls EXCEPT ![r].search = @ + 1]
          /\ UNCHANGED responses
  /\ UNCHANGED <<composer, body, results, searchFailure, connection, df,
                 completion, args, resp, failure, inserts,
                 messagesTable>>

\* fetchSearchResults sending its request a second time after a non-success
\* answer
SearchFails_Mut(r) ==
  /\ pc[r] = "awaitSearch"
  /\ IF calls[r].search < 2
     THEN /\ calls' = [calls EXCEPT ![r].search = @ + 1]
          /\ UNCHANGED <<search, searchFailure, failure, responses, pc>>
     ELSE /\ search' = [search EXCEPT ![r] = "error"]
          /\ \E e \in SearchErrors :
               /\ searchFailure' = [searchFailure EXCEPT ![r] = e]
               /\ Catch(r, SearchErrorText(e))
          /\ UNCHANGED calls
  /\ UNCHANGED <<composer, body, results, connection, df, completion, args,
                 resp, inserts,
                 messagesTable>>

\* lines 51-54 and 230-236: the search endpoint answers with a non-success
\* status; fetchSearchResults throws and POST answers 500
SearchFails(r) ==
  /\ pc[r] = "awaitSearch"
  /\ search' = [search EXCEPT ![r] = "error"]
  /\ \E e \in SearchErrors :
       /\ searchFailure' = [searchFailure EXCEPT ![r] = e]
       /\ Catch(r, SearchErrorText(e))
  /\ UNCHANGED <<composer, body, results, connection, df, completion, args,
                 resp, calls, inserts,
                 messagesTable>>

\* POST throwing on an answer without items
AfterSearch_Mut(r, d) ==
  IF items(d) = <<>>
  THEN /\ Catch(r, "No search results")
       /\ UNCHANGED <<completion, args, calls>>
  ELSE IF HistoryThrows(body[r].messages)
  THEN /\ Catch(r, TypeErrorText)
       /\ UNCHANGED <<completion, args, calls>>
  ELSE /\ pc' = [pc EXCEPT ![r] = "awaitCompletion"]
       /\ completion' = [completion EXCEPT ![r] = "pending"]
       /\ args' = [args EXCEPT ![r] = Append(@, CompletionArgs(body[r], d))]
       /\ calls' = [calls EXCEPT ![r].completion = @ + 1]
       /\ UNCHANGED <<failure, responses>>

\* lines 81-141: POST normalizes the items of the search answer d, maps the
\* history (a null entry throws) and sends the completion
AfterSearch(r, d) ==
  IF HistoryThrows(body[r].messages)
  THEN /\ Catch(r, TypeErrorText)
       /\ UNCHANGED <<completion, args, calls>>
  ELSE /\ pc' = [pc EXCEPT ![r] = "awaitCompletion"]
       /\ completion' = [completion EXCEPT ![r] = "pending"]
       /\ args' = [args EXCEPT ![r] = Append(@, CompletionArgs(body[r], d))]
       /\ calls' = [calls EXCEPT ![r].completion = @ + 1]
       /\ UNCHANGED <<failure, responses>>

\* POST storing the user row before it sends the completion
SearchOk_Mut(r) ==
  /\ pc[r] = "awaitSearch"
  /\ search' = [search EXCEPT ![r] = "ok"]
  /\ \E d \in DfValues :
       /\ df' = [df EXCEPT ![r] = d]
       /\ results' = [results EXCEPT ![r] = search_results(items(d))]
       /\ AfterSearch(r, d)
  /\ IF ~HistoryThrows(body[r].messages)
        /\ ShouldInsert(body[r].messages, body[r].query.s)
     THEN /\ inserts' = [inserts EXCEPT ![r] =
                           Append(@, [row |-> UserRow(body[r]),
                                      outcome |-> "ok"])]
          /\ messagesTable' = Append(messagesTable, UserRow(body[r]))
     ELSE UNCHANGED <<inserts, messagesTable>>
  /\ UNCHANGED <<composer, body, searchFailure, connection, resp>>

\* lines 55 and 80: the search endpoint answers ok and its body parses
SearchOk(r) ==
  /\ pc[r] = "awaitSearch"
  /\ search' = [search EXCEPT ![r] = "ok"]
  /\ \E d \in DfValues :
       /\ df' = [df EXCEPT ![r] = d]
       /\ results' = [results EXCEPT ![r] = search_results(items(d))]
       /\ AfterSearch(r, d)
  /\ UNCHANGED <<composer, body, searchFailure, connection, resp, inserts,
                 messagesTable>>

\* lines 134 and 230-236: the completion call throws; POST answers 500
CompletionFails(r) ==
  /\ pc[r] = "awaitCompletion"
  /\ completion' = [completion EXCEPT ![r] = "error"]
  /\ \E message \in CompletionErrors : Catch(r, message)
  /\ UNCHANGED <<composer, body, results, searchFailure, connection, search,
                 df, args, resp, calls, inserts,
                 messagesTable>>

\* lines 200-229, from the assistant row on: sends the assistant insert, or
\* answers 200 with the completion text
PersistAssistant(r, content) ==
  IF ShouldInsert(body[r].messages, content)
  THEN /\ pc' = [pc EXCEPT ![r] = "awaitAssistantInsert"]
       /\ inserts' = [inserts EXCEPT ![r] =
                        Append(@, [row |-> AssistantRow(body[r], content),
                                   outcome |-> "pending"])]
       /\ UNCHANGED responses
  ELSE /\ Respond(r, 200, "message", content)
       /\ UNCHANGED inserts

\* lines 141-186: the completion call returns; POST derives the identifiers
\* and the cursor from the last history entry and sends the user insert
CompletionOk(r) ==
  /\ pc[r] = "awaitCompletion"
  /\ completion' = [completion EXCEPT ![r] = "ok"]
  /\ \E answer \in CompletionResponses :
       /\ resp' = [resp EXCEPT ![r] = answer]
       /\ IF ShouldInsert(body[r].messages, body[r].query.s)
          THEN /\ pc' = [pc EXCEPT ![r] = "awaitUserInsert"]
               /\ inserts' = [inserts EXCEPT ![r] =
                                Append(@, [row |-> UserRow(body[r]),
                                           outcome |-> "pending"])]
               /\ UNCHANGED responses
          ELSE PersistAssistant(r, assistantContent(answer))
  /\ UNCHANGED <<composer, body, results, searchFailure, connection, search,
                 df, args, failure, calls,
                 messagesTable>>

\* the user row stored only when the table has no row of that chat and
\* sequence number yet
UserInsertReturns_Mut(r) ==
  /\ pc[r] = "awaitUserInsert"
  /\ \E ok \in BOOLEAN :
       LET k == Len(inserts[r])
           done == [inserts[r] EXCEPT
                      ![k].outcome = IF ok THEN "ok" ELSE "error"]
           content == assistantContent(resp[r])
           there == \E i \in 1..Len(messagesTable) :
                      /\ messagesTable[i].chat_id = done[k].row.chat_id
                      /\ messagesTable[i].sequence_number =
                           done[k].row.sequence_number
       IN /\ messagesTable' = IF ok /\ ~there
                              THEN Append(messagesTable, done[k].row)
                              ELSE messagesTable
          /\ IF ShouldInsert(body[r].messages, content)
             THEN /\ pc' = [pc EXCEPT ![r] = "awaitAssistantInsert"]
                  /\ inserts' = [inserts EXCEPT ![r] =
                                   Append(done,
                                          [row |-> AssistantRow(body[r],
                                                                content),
                                           outcome |-> "pending"])]
                  /\ UNCHANGED responses
             ELSE /\ Respond(r, 200, "message", content)
                  /\ inserts' = [inserts EXCEPT ![r] = done]
  /\ UNCHANGED <<composer, body, results, searchFailure, connection, search,
                 df, completion, args, resp,
                 failure, calls>>

\* POST giving up the assistant row when the user insert reported an error
UserInsertReturns_MutSkip(r) ==
  /\ pc[r] = "awaitUserInsert"
  /\ \E ok \in BOOLEAN :
       LET k == Len(inserts[r])
           done == [inserts[r] EXCEPT
                      ![k].outcome = IF ok THEN "ok" ELSE "error"]
           content == assistantContent(resp[r])
       IN /\ messagesTable' = IF ok THEN Append(messagesTable, done[k].row)
                              ELSE messagesTable
          /\ IF ok /\ ShouldInsert(body[r].messages, content)
             THEN /\ pc' = [pc EXCEPT ![r] = "awaitAssistantInsert"]
                  /\ inserts' = [inserts EXCEPT ![r] =
                                   Append(done,
                                          [row |-> AssistantRow(body[r],
                                                                content),
                                           outcome |-> "pending"])]
                  /\ UNCHANGED responses
             ELSE /\ Respond(r, 200, "message", content)
                  /\ inserts' = [inserts EXCEPT ![r] = done]
  /\ UNCHANGED <<composer, body, results, searchFailure, connection, search,
                 df, completion,
                 args, resp, failure, calls>>

\* lines 174-198 and 200-229: the user insert returns, with an error or with
\* the stored row; either way POST goes on to the assistant row
UserInsertReturns(r) ==
  /\ pc[r] = "awaitUserInsert"
  /\ \E ok \in BOOLEAN :
       LET k == Len(inserts[r])
           done == [inserts[r] EXCEPT
                      ![k].outcome = IF ok THEN "ok" ELSE "error"]
           content == assistantContent(resp[r])
       IN /\ messagesTable' = IF ok THEN Append(messagesTable, done[k].row)
                              ELSE messagesTable
          /\ IF ShouldInsert(body[r].messages, content)
             THEN /\ pc' = [pc EXCEPT ![r] = "awaitAssistantInsert"]
                  /\ inserts' = [inserts EXCEPT ![r] =
                                   Append(done,
                                          [row |-> AssistantRow(body[r],
                                                                content),
                                           outcome |-> "pending"])]
                  /\ UNCHANGED responses
             ELSE /\ Respond(r, 200, "message", content)
                  /\ inserts' = [inserts EXCEPT ![r] = done]
  /\ UNCHANGED <<composer, body, results, searchFailure, connection, search,
                 df, completion, args, resp,
                 failure, calls>>

\* the assistant insert with its error thrown into the catch block
AssistantInsertReturns_Mut(r) ==
  /\ pc[r] = "awaitAssistantInsert"
  /\ \E ok \in BOOLEAN :
       LET k == Len(inserts[r])
       IN /\ inserts' = [inserts EXCEPT
                           ![r][k].outcome = IF ok THEN "ok" ELSE "error"]
          /\ messagesTable' = IF ok
                              THEN Append(messagesTable, inserts[r][k].row)
                              ELSE messagesTable
          /\ IF ok
             THEN /\ Respond(r, 200, "message", assistantContent(resp[r]))
                  /\ UNCHANGED failure
             ELSE Catch(r, "insert failed")
  /\ UNCHANGED <<composer, body, results, searchFailure, connection, search,
                 df, completion, args, resp, calls>>

\* lines 203-229: the assistant insert returns, with an error or with the
\* stored row; POST answers 200 with the completion text
AssistantInsertReturns(r) ==
  /\ pc[r] = "awaitAssistantInsert"
  /\ \E ok \in BOOLEAN :
       LET k == Len(inserts[r])
       IN /\ inserts' = [inserts EXCEPT
                           ![r][k].outcome = IF ok THEN "ok" ELSE "error"]
          /\ messagesTable' = IF ok
                              THEN Append(messagesTable, inserts[r][k].row)
                              ELSE messagesTable
  /\ Respond(r, 200, "message", assistantContent(resp[r]))
  /\ UNCHANGED <<composer, body, results, searchFailure, connection, search,
                 df, completion, args, resp,
                 failure, calls>>

Next ==
  \E r \in Requests :
    \/ CallCheckConnection(r)
    \/ ConnectionReturns(r)
    \/ ReqJsonReturns(r)
    \/ SearchFails(r)
    \/ SearchOk(r)
    \/ CompletionFails(r)
    \/ CompletionOk(r)
    \/ UserInsertReturns(r)
    \/ AssistantInsertReturns(r)

Spec == Init /\ [][Next]_vars

\* ------------------------------------------------------------------------
\* The composer: ChatInput (src/lib/supabase/service-role.ts, lines 38-270)
\* ------------------------------------------------------------------------

\* the drafts the text box can hold
UserInputs == {"", "weather in Paris"}

\* the message histories the chat can show
ChatMessagesValues == {<<>>, <<"hi", "hello">>}

\* the pickers that can be open together: none, or one of them
PickerStates ==
  {[p \in Pickers |-> FALSE]}
    \cup { [p \in Pickers |-> p = q] : q \in Pickers }

\* the keyboard events the text box receives
KeyEvents ==
  [key : {"Enter", "Tab", "ArrowUp", "ArrowDown", "a"},
   shiftKey : BOOLEAN, ctrlKey : BOOLEAN]

\* lines 95 and 261: handleSendMessage(userInput, chatMessages, false,
\* useWebSearch), called from the handler via on the given event; tick tells
\* a call from the one before it
SendCall(via, event) ==
  [messageContent |-> userInput, chatMessages |-> chatMessages,
   isRegeneration |-> FALSE, useWebSearch |-> useWebSearch, via |-> via,
   key |-> event.key, shiftKey |-> event.shiftKey,
   tick |-> IF sent = <<>> THEN 0 ELSE 1 - sent[1].tick]

\* a key press sending whatever the composition state is
SendsOnKey_Mut(event) == event.key = "Enter" /\ ~event.shiftKey

\* line 92: !isTyping && event.key === "Enter" && !event.shiftKey
SendsOnKey(event) == ~isTyping /\ event.key = "Enter" /\ ~event.shiftKey

\* lines 99-109: a picker is open and the key moves the focus
NavigatesPickers(event) ==
  /\ \E p \in Pickers : pickerOpen[p]
  /\ event.key \in {"Tab", "ArrowUp", "ArrowDown"}

\* lines 119 and 123: Ctrl+Shift+ArrowUp or Ctrl+Shift+ArrowDown
RecallsHistory(event) ==
  event.key \in {"ArrowUp", "ArrowDown"} /\ event.shiftKey /\ event.ctrlKey

\* the drafts setNewMessageContentToPreviousUserMessage and
\* setNewMessageContentToNextUserMessage can put into the text box
RecalledInputs == UserInputs

\* line 241: onCompositionStart
CompositionStart ==
  /\ ~composing
  /\ composing' = TRUE
  /\ isTyping' = TRUE
  /\ UNCHANGED <<handler, useWebSearch, userInput, chatMessages,
                 isGenerating, pickerOpen, focus, sent>>

\* line 242: onCompositionEnd
CompositionEnd ==
  /\ composing
  /\ composing' = FALSE
  /\ isTyping' = FALSE
  /\ UNCHANGED <<handler, useWebSearch, userInput, chatMessages,
                 isGenerating, pickerOpen, focus, sent>>

\* lines 194-200: the toggle is clicked; e.target.checked is the new value
ToggleWebSearch ==
  /\ useWebSearch' = ~useWebSearch
  /\ UNCHANGED <<handler, isTyping, composing, userInput, chatMessages,
                 isGenerating, pickerOpen, focus, sent>>

\* line 235: the text changes; handleInputChange stores the draft and opens
\* or closes the pickers
ValueChange ==
  /\ userInput' \in UserInputs
  /\ pickerOpen' \in PickerStates
  /\ <<userInput', pickerOpen'>> # <<userInput, pickerOpen>>
  /\ UNCHANGED <<handler, isTyping, composing, useWebSearch, chatMessages,
                 isGenerating, focus, sent>>

\* the chat moves on outside the composer: the visible messages and
\* isGenerating of the context change
ContextChange ==
  /\ chatMessages' \in ChatMessagesValues
  /\ isGenerating' \in BOOLEAN
  /\ <<chatMessages', isGenerating'>> # <<chatMessages, isGenerating>>
  /\ UNCHANGED <<handler, isTyping, composing, useWebSearch, userInput,
                 pickerOpen, focus, sent>>

\* lines 90-127: handleKeyDown
handleKeyDown(event) ==
  /\ IF SendsOnKey(event)
     THEN /\ pickerOpen' = [pickerOpen EXCEPT !["prompt"] = FALSE]
          /\ sent' = <<SendCall("handleKeyDown", event)>>
     ELSE UNCHANGED <<pickerOpen, sent>>
  /\ IF NavigatesPickers(event)
     THEN focus' = [p \in Pickers |->
                      IF pickerOpen[p] THEN ~focus[p] ELSE focus[p]]
     ELSE UNCHANGED focus
  /\ IF RecallsHistory(event)
     THEN userInput' \in RecalledInputs
     ELSE UNCHANGED userInput
  /\ UNCHANGED <<handler, isTyping, composing, useWebSearch, chatMessages,
                 isGenerating>>

\* a key is pressed in the text box (line 239)
KeyDown == \E event \in KeyEvents : handleKeyDown(event)

\* lines 254-264: the send icon, shown while nothing is generated, is clicked
ClickSend ==
  /\ ~isGenerating
  /\ IF userInput = ""
     THEN UNCHANGED sent
     ELSE sent' = <<SendCall("onClick",
                             [key |-> "", shiftKey |-> FALSE,
                              ctrlKey |-> FALSE])>>
  /\ UNCHANGED <<handler, isTyping, composing, useWebSearch, userInput,
                 chatMessages, isGenerating, pickerOpen, focus>>

NextComposer ==
  \/ CompositionStart
  \/ CompositionEnd
  \/ ToggleWebSearch
  \/ ValueChange
  \/ ContextChange
  \/ KeyDown
  \/ ClickSend

\* the composer alone: no request is running
SpecComposer == InitFor({}, Bodies) /\ [][NextComposer]_vars

\* ------------------------------------------------------------------------
\* Properties
\* ------------------------------------------------------------------------

Ended(r) == pc[r] \in {"responded", "rejected"}

ProbeFailed(r) == connection[r] \in {"notOk", "networkError"}

\* the inserts request r has issued for rows of the given role
InsertsOf(r, role) ==
  {k \in 1..Len(inserts[r]) : inserts[r][k].row.role = role}

\* C1: whenever the connectivity probe of a request has failed, the request
\* has been answered with 503 and the offline text, and it has called neither
\* the search endpoint nor the completion provider and issued no insert,
\* whatever its body is.
C1_ProbeFailureShortCircuits ==
  \A r \in Requests :
    ProbeFailed(r) =>
      /\ responses[r] =
           <<[status |-> 503, key |-> "error", text |-> OfflineText]>>
      /\ calls[r].search = 0
      /\ calls[r].completion = 0
      /\ inserts[r] = <<>>

\* a request with a query and identifiers in its history, answered 503 after
\* a non-success status of the probe
C1_Witness ==
  \E r \in Requests :
    /\ connection[r] = "notOk"
    /\ pc[r] = "responded"
    /\ body[r].parses /\ Truthy(body[r].query)
    /\ ShouldInsert(body[r].messages, "x")

\* the query of the request is absent or empty (a body that does not parse
\* carries no query)
QueryMissing(r) ==
  ~body[r].parses \/ body[r].query.t = "undefined" \/ body[r].query = Str("")

\* C2 as stated: a request whose query is absent or empty ends with status 400
\* and has sent no request to the search provider (the probe is one), no
\* completion call and no insert.
C2_Original ==
  \A r \in Requests :
    (Ended(r) /\ QueryMissing(r)) =>
      /\ Len(responses[r]) = 1 /\ responses[r][1].status = 400
      /\ calls[r].probe = 0 /\ calls[r].search = 0
      /\ calls[r].completion = 0 /\ inserts[r] = <<>>

\* C2 amended: a request whose query is absent or empty sends exactly one
\* request to the search provider, the connectivity probe, and never calls
\* the search endpoint or the completion provider nor issues an insert; it is
\* answered 503 when the probe failed and 400 when the probe succeeded and
\* the body parsed.
C2_MissingQuery ==
  \A r \in Requests :
    QueryMissing(r) =>
      /\ calls[r].search = 0
      /\ calls[r].completion = 0
      /\ inserts[r] = <<>>
      /\ Ended(r) =>
           /\ calls[r].probe = 1
           /\ ProbeFailed(r) =>
                responses[r] =
                  <<[status |-> 503, key |-> "error", text |-> OfflineText]>>
           /\ (connection[r] = "ok" /\ body[r].parses) =>
                responses[r] =
                  <<[status |-> 400, key |-> "error",
                     text |-> MissingQueryText]>>

\* a request with an empty query and identifiers in its history, answered 400
\* after its probe succeeded
C2_Witness ==
  \E r \in Requests :
    /\ body[r].parses /\ body[r].query = Str("")
    /\ ShouldInsert(body[r].messages, "x")
    /\ connection[r] = "ok"
    /\ pc[r] = "responded"
    /\ responses[r][1].status = 400

\* C3: whenever the completion call of a request has failed, the request has
\* been answered with status 500 and an error body carrying the text of the
\* provider's error, and it has issued no insert of an assistant row.
C3_CompletionFailure ==
  \A r \in Requests :
    completion[r] = "error" =>
      /\ failure[r] \in CompletionErrors
      /\ responses[r] =
           <<[status |-> 500, key |-> "error", text |-> failure[r]]>>
      /\ InsertsOf(r, "assistant") = {}

\* a request with identifiers in its history whose completion call failed
C3_Witness ==
  \E r \in Requests :
    /\ completion[r] = "error"
    /\ pc[r] = "responded"
    /\ ShouldInsert(body[r].messages, "x")
    /\ responses[r][1].text = "401 Access denied"

\* the text the completion answer of request r carries, "" when it has none
CompletionText(r) ==
  IF resp[r].choices # <<>> /\ resp[r].choices[1].content.t = "string"
  THEN resp[r].choices[1].content.s ELSE ""

Answered200(r) ==
  responses[r] =
    <<[status |-> 200, key |-> "message", text |-> CompletionText(r)]>>

\* C4: a request whose probe, search call and completion call all succeeded
\* is answered with status 200 and the completion text, whatever the outcome
\* of its inserts.
C4_InsertFailuresNotSurfaced ==
  \A r \in Requests :
    (pc[r] = "responded" /\ connection[r] = "ok" /\ search[r] = "ok"
       /\ completion[r] = "ok") => Answered200(r)

\* a request answered after both of its inserts reported an error
C4_Witness ==
  \E r \in Requests :
    /\ pc[r] = "responded"
    /\ Len(inserts[r]) = 2
    /\ inserts[r][1].outcome = "error"
    /\ inserts[r][2].outcome = "error"
    /\ CompletionText(r) # ""

\* the last entry of the supplied history, one envelope level unwrapped
LastEntry(r) ==
  LET list == body[r].messages.list
      last == list[Len(list)]
  IN IF "message" \in DOMAIN last /\ Truthy(last.message)
     THEN last.message ELSE last

\* chat_id or user_id is absent (or empty) in the last history entry, or
\* there is no last entry
IdsAbsent(r) ==
  \/ ~body[r].messages.isArray
  \/ body[r].messages.list = <<>>
  \/ ~Truthy(Prop(LastEntry(r), "chat_id"))
  \/ ~Truthy(Prop(LastEntry(r), "user_id"))

\* C5: a request whose last history entry lacks chat_id or user_id (or whose
\* history is empty or no array) issues no insert, and once its completion
\* call has succeeded it is answered with status 200 and the completion text.
C5_NoIdsNoInsert ==
  \A r \in Requests :
    IdsAbsent(r) =>
      /\ inserts[r] = <<>>
      /\ (pc[r] = "responded" /\ completion[r] = "ok") => Answered200(r)

\* a request answered 200 with a text, whose last history entry has a chat_id
\* but no user_id while an earlier entry carries both
C5_Witness ==
  \E r \in Requests :
    /\ pc[r] = "responded" /\ completion[r] = "ok"
    /\ CompletionText(r) # ""
    /\ Len(body[r].messages.list) = 2
    /\ Truthy(Prop(body[r].messages.list[1], "chat_id"))
    /\ Truthy(Prop(body[r].messages.list[1], "user_id"))
    /\ Truthy(Prop(LastEntry(r), "chat_id"))
    /\ IdsAbsent(r)

\* the sequence_number of the last history entry is a number
HasSeq(r) == Prop(LastEntry(r), "sequence_number").t = "number"

\* every insert of request r carries cursor + 1 in a user row and cursor + 2
\* in an assistant row
SeqFromCursor(r, cursor) ==
  \A k \in 1..Len(inserts[r]) :
    LET row == inserts[r][k].row
    IN /\ row.role = "user" => row.sequence_number = cursor + 1
       /\ row.role = "assistant" => row.sequence_number = cursor + 2

\* C6 as stated: the cursor is the sequence_number of the last history entry
\* when that is a number, and otherwise the length of the history.
C6_Original ==
  \A r \in Requests :
    inserts[r] # <<>> =>
      SeqFromCursor(r, IF HasSeq(r)
                       THEN Prop(LastEntry(r), "sequence_number").n
                       ELSE Len(body[r].messages.list))

\* C6 amended: the user row is inserted with sequence_number cursor + 1 and
\* the assistant row with cursor + 2, where cursor is the sequence_number of
\* the last history entry when that is a number, and otherwise the length of
\* the history minus one (the index of the last entry).
C6_SequenceNumbers ==
  \A r \in Requests :
    inserts[r] # <<>> =>
      SeqFromCursor(r, IF HasSeq(r)
                       THEN Prop(LastEntry(r), "sequence_number").n
                       ELSE Len(body[r].messages.list) - 1)

\* a request that issued both inserts from a history of two entries whose
\* last entry has no sequence_number
C6_Witness ==
  \E r \in Requests :
    /\ InsertsOf(r, "user") # {} /\ InsertsOf(r, "assistant") # {}
    /\ Len(body[r].messages.list) = 2
    /\ ~HasSeq(r)

\* C7: every invocation of POST that has ended has returned exactly one
\* response: 503 with an error body when the probe failed, 400 with an error
\* body when the query is missing, 200 with a message body when the
\* completion succeeded, and 500 with an error body after any other failure,
\* a request body that does not parse included.
C7_ExactlyOneResponse ==
  \A r \in Requests :
    Ended(r) =>
      /\ Len(responses[r]) = 1
      /\ LET res == responses[r][1]
         IN /\ res.status \in {200, 400, 500, 503}
            /\ res.status = 503 <=> ProbeFailed(r)
            /\ res.status = 400 <=>
                 (connection[r] = "ok" /\ body[r].parses
                    /\ ~Truthy(body[r].query))
            /\ res.status = 200 <=> completion[r] = "ok"
            /\ res.status = 200 => res.key = "message"
            /\ res.status # 200 => res.key = "error"
            /\ (connection[r] = "ok" /\ ~body[r].parses) => res.status = 500

\* the messages of the k-th completion call of request r
Prompt(r, k) == args[r][k].messages

\* C8: the message sequence of every completion call starts with the system
\* message, then the assistant-role tool message with the serialized search
\* results, then the user message restating the query, and all that follows
\* is the filtered history.
C8_PromptOrder ==
  \A r \in Requests :
    \A k \in 1..Len(args[r]) :
      LET ms == Prompt(r, k)
      IN /\ Len(ms) = 3 + Len(history(body[r].messages))
         /\ ms[1] = [role |-> "system", content |-> SystemText]
         /\ ms[2].role = "assistant" /\ ms[2].name = "web_search_tool"
         /\ ms[2].content = Stringify(search_results(items(df[r])))
         /\ ms[3] = userMsg(body[r].query)
         /\ SubSeq(ms, 4, Len(ms)) = history(body[r].messages)

\* a completion call issued with search results and a history of which two
\* entries are kept
C8_Witness ==
  \E r \in Requests :
    /\ Len(args[r]) = 1
    /\ df[r].items # <<>>
    /\ Len(Prompt(r, 1)) = 5
    /\ Prompt(r, 1)[4].role = "user"

\* entry m with one message envelope level unwrapped
Unwrapped(m) ==
  IF "message" \in DOMAIN m /\ m.message.t \notin {"undefined", "null"}
  THEN m.message ELSE m

\* the unwrapped entry has a role and a content
Qualifies(m) ==
  LET u == Unwrapped(m)
  IN /\ "role" \in DOMAIN u /\ u.role.t = "string" /\ u.role.s # ""
     /\ "content" \in DOMAIN u /\ u.content.t = "string" /\ u.content.s # ""

\* the positions of the history entries that qualify
Kept(list) == {i \in 1..Len(list) : Qualifies(list[i])}

\* the j-th smallest position in Kept(list)
KeptAt(list, j) ==
  CHOOSE i \in Kept(list) : Cardinality({h \in Kept(list) : h < i}) = j - 1

\* C9: the history part of the prompt of every completion call is the
\* subsequence of the supplied history entries that, one envelope level
\* unwrapped, expose both a role and a content: each of them is there with
\* its role and content, no other entry is, and their order is kept.
C9_FilteredHistory ==
  \A r \in Requests :
    \A k \in 1..Len(args[r]) :
      LET list == body[r].messages.list
          hist == SubSeq(Prompt(r, k), 4, Len(Prompt(r, k)))
      IN /\ Len(hist) = Cardinality(Kept(list))
         /\ \A j \in 1..Len(hist) :
              LET u == Unwrapped(list[KeptAt(list, j)])
              IN hist[j] = [role |-> u.role.s, content |-> u.content.s]

\* a completion call whose history of two entries lost its first entry (a
\* role without content inside an envelope) and kept its second
C9_Witness ==
  \E r \in Requests :
    /\ Len(args[r]) = 1
    /\ Len(body[r].messages.list) = 2
    /\ Kept(body[r].messages.list) = {2}
    /\ "message" \in DOMAIN body[r].messages.list[2]
    /\ Len(Prompt(r, 1)) = 4

\* no entry of the history of request r is null
HistoryWellFormed(r) ==
  \A i \in 1..Len(body[r].messages.list) :
    body[r].messages.list[i].t = "object"

\* C10: when the search call succeeded with zero items or without a results
\* array, and the history can be mapped, the completion call has been issued
\* with "[]" as the content of the tool message.
C10_EmptySearchProceeds ==
  \A r \in Requests :
    (search[r] = "ok" /\ (~df[r].hasItems \/ df[r].items = <<>>)
       /\ HistoryWellFormed(r)) =>
      /\ calls[r].completion = 1
      /\ Len(args[r]) = 1
      /\ Prompt(r, 1)[2].content = "[]"
      /\ failure[r] # "" => completion[r] = "error"

\* a request answered 200 after a search answer without a results array
C10_Witness ==
  \E r \in Requests :
    /\ search[r] = "ok" /\ ~df[r].hasItems
    /\ pc[r] = "responded"
    /\ responses[r][1].status = 200

\* the inserts of request r that the store accepted
OkInserts(r) == {k \in 1..Len(inserts[r]) : inserts[r][k].outcome = "ok"}

RECURSIVE CountOk(_)
\* how many inserts of the requests in rs the store accepted
CountOk(rs) ==
  IF rs = {} THEN 0
  ELSE LET r == CHOOSE x \in rs : TRUE
       IN Cardinality(OkInserts(r)) + CountOk(rs \ {r})

\* rows i and j of the table collide: same chat, same sequence number
Collide(i, j) ==
  /\ i # j
  /\ messagesTable[i].chat_id = messagesTable[j].chat_id
  /\ messagesTable[i].role = messagesTable[j].role
  /\ messagesTable[i].sequence_number = messagesTable[j].sequence_number

\* C11: two concurrent invocations given the same body are not coordinated:
\* their k-th inserts carry the same chat_id and the same sequence_number,
\* every accepted insert is a row of the table (no row is refused or replaced
\* because of a collision), and both requests are answered 200 when all four
\* rows went in.
C11_RaceNotCoordinated ==
  /\ Len(messagesTable) = CountOk(Requests)
  /\ \A r1, r2 \in Requests :
       /\ \A k \in 1..Len(inserts[r1]) :
            k <= Len(inserts[r2]) =>
              /\ inserts[r1][k].row.chat_id = inserts[r2][k].row.chat_id
              /\ inserts[r1][k].row.role = inserts[r2][k].row.role
              /\ inserts[r1][k].row.sequence_number =
                   inserts[r2][k].row.sequence_number
       /\ (pc[r1] = "responded" /\ Cardinality(OkInserts(r1)) = 2) =>
            responses[r1][1].status = 200

\* the table holds two user rows and two assistant rows of one chat, the user
\* rows with the same sequence number and the assistant rows with the next,
\* and both requests have been answered 200
C11_Witness ==
  /\ Len(messagesTable) = 4
  /\ \E i, j, k, l \in 1..4 :
       /\ Collide(i, j) /\ messagesTable[i].role = "user"
       /\ Collide(k, l) /\ messagesTable[k].role = "assistant"
       /\ messagesTable[k].sequence_number =
            messagesTable[i].sequence_number + 1
  /\ \A r \in Requests :
       pc[r] = "responded" /\ responses[r][1].status = 200
  /\ Cardinality(Requests) = 2

\* the external calls of request r that are in flight
InFlight(r) ==
  {c \in {"probe", "search", "completion"} :
     \/ c = "probe" /\ connection[r] = "pending"
     \/ c = "search" /\ search[r] = "pending"
     \/ c = "completion" /\ completion[r] = "pending"}

\* C12: within one request the search call has been issued only if the probe
\* has returned success, the completion call only if the search call has
\* returned success, and at most one of the three calls is in flight.
C12_SequentialCalls ==
  \A r \in Requests :
    /\ calls[r].search > 0 => connection[r] = "ok"
    /\ calls[r].completion > 0 => (connection[r] = "ok" /\ search[r] = "ok")
    /\ search[r] # "none" => calls[r].search > 0
    /\ completion[r] # "none" => calls[r].completion > 0
    /\ Cardinality(InFlight(r)) <= 1

\* the completion call in flight after the probe and the search succeeded
C12_Witness ==
  \E r \in Requests :
    /\ InFlight(r) = {"completion"}
    /\ connection[r] = "ok" /\ search[r] = "ok"
    /\ calls[r] = [probe |-> 1, search |-> 1, completion |-> 1]

\* C13: in any single request the probe, the search call and the completion
\* call are each issued at most once, and at most one user row and at most
\* one assistant row are inserted, whichever of them fail.
C13_NoRetry ==
  \A r \in Requests :
    /\ calls[r].probe <= 1
    /\ calls[r].search <= 1
    /\ calls[r].completion <= 1
    /\ Len(args[r]) = calls[r].completion
    /\ Len(inserts[r]) <= 2
    /\ Cardinality(InsertsOf(r, "user")) <= 1
    /\ Cardinality(InsertsOf(r, "assistant")) <= 1

\* a request answered after its user insert failed and its assistant insert
\* went in, every provider called once
C13_Witness ==
  \E r \in Requests :
    /\ pc[r] = "responded"
    /\ calls[r] = [probe |-> 1, search |-> 1, completion |-> 1]
    /\ Len(inserts[r]) = 2
    /\ inserts[r][1].outcome = "error"
    /\ inserts[r][2].outcome = "ok"

\* C14: when the search endpoint answered with a non-success status, the
\* request has been answered 500 with an error body that carries the status
\* and the body text of that answer, no completion call has been issued and
\* no insert either.
C14_SearchFailure ==
  \A r \in Requests :
    search[r] = "error" =>
      /\ LET status == IF searchFailure[r].status = 401 THEN "401" ELSE "500"
         IN responses[r] =
              <<[status |-> 500, key |-> "error",
                 text |-> "DataForSEO error " \o status \o ": "
                            \o searchFailure[r].text]>>
      /\ calls[r].completion = 0
      /\ args[r] = <<>>
      /\ inserts[r] = <<>>

\* a request with identifiers in its history answered 500 after the search
\* endpoint answered 401 with the text "denied"
C14_Witness ==
  \E r \in Requests :
    /\ search[r] = "error"
    /\ searchFailure[r] = [status |-> 401, text |-> "denied"]
    /\ pc[r] = "responded"
    /\ ShouldInsert(body[r].messages, "x")

\* the cursor of request r: the sequence_number of the last history entry
\* when it is a number, else the index of that entry
Cursor(r) ==
  IF HasSeq(r) THEN Prop(LastEntry(r), "sequence_number").n
  ELSE Len(body[r].messages.list) - 1

\* C15: a request whose completion call succeeded without a text is answered
\* 200 with the empty string as message; it issues no insert of an assistant
\* row, and when the identifiers are present its one insert is the user row
\* at cursor + 1.
C15_EmptyCompletion ==
  \A r \in Requests :
    (completion[r] = "ok" /\ CompletionText(r) = "") =>
      /\ InsertsOf(r, "assistant") = {}
      /\ ~IdsAbsent(r) =>
           /\ Len(inserts[r]) = 1
           /\ inserts[r][1].row.role = "user"
           /\ inserts[r][1].row.content = body[r].query.s
           /\ inserts[r][1].row.sequence_number = Cursor(r) + 1
      /\ pc[r] = "responded" =>
           responses[r] =
             <<[status |-> 200, key |-> "message", text |-> ""]>>

\* a request with identifiers answered 200 after a completion whose content
\* is null, its user row stored
C15_Witness ==
  \E r \in Requests :
    /\ completion[r] = "ok"
    /\ resp[r].choices # <<>> /\ resp[r].choices[1].content = Null
    /\ ~IdsAbsent(r)
    /\ pc[r] = "responded"
    /\ Len(messagesTable) = 1 /\ messagesTable[1].role = "user"

\* C16: a request has issued an insert only if its completion call has
\* returned successfully; a request answered 503, 400 or 500 has issued none,
\* and when it is the only request the table is empty.
C16_InsertsAfterCompletion ==
  \A r \in Requests :
    /\ inserts[r] # <<>> => completion[r] = "ok"
    /\ completion[r] # "ok" =>
         \A k \in 1..Len(messagesTable) :
           \E r2 \in Requests \ {r} :
             \E j \in OkInserts(r2) : inserts[r2][j].row = messagesTable[k]
    /\ (pc[r] = "responded" /\ responses[r][1].status \in {400, 500, 503}) =>
         inserts[r] = <<>>

\* a request with identifiers answered 500 after its completion call failed,
\* the table still empty
C16_Witness ==
  \E r \in Requests :
    /\ pc[r] = "responded"
    /\ responses[r][1].status = 500
    /\ failure[r] = "Connection error."
    /\ ~IdsAbsent(r)
    /\ messagesTable = <<>>

\* C17: the assistant insert of a request is issued only once its user insert
\* has returned, and it is issued whether the user insert was accepted or
\* reported an error, as soon as the completion carries a text.
C17_InsertsIndependent ==
  \A r \in Requests :
    /\ \A k \in InsertsOf(r, "assistant") :
         /\ k = 2
         /\ inserts[r][1].row.role = "user"
         /\ inserts[r][1].outcome \in {"ok", "error"}
    /\ (inserts[r] # <<>> /\ inserts[r][1].outcome \in {"ok", "error"}
          /\ CompletionText(r) # "") =>
         /\ Len(inserts[r]) = 2
         /\ inserts[r][2].row.role = "assistant"
         /\ inserts[r][2].row.content = CompletionText(r)
         /\ inserts[r][2].row.sequence_number = Cursor(r) + 2

\* the table holds the assistant row at cursor + 2 of a request and nothing
\* else, the user insert of that request having reported an error
C17_Witness ==
  \E r \in Requests :
    /\ pc[r] = "responded"
    /\ Len(inserts[r]) = 2
    /\ inserts[r][1].outcome = "error"
    /\ Len(messagesTable) = 1
    /\ messagesTable[1].role = "assistant"
    /\ messagesTable[1].sequence_number = Cursor(r) + 2

\* the positions of the blanks in the pieces of a string
Blanks(pieces) == {k \in 1..Len(pieces) : pieces[k] = " "}

\* the text in front of the first blank of a timestamp, all of it when it
\* has no blank
DatePart(timestamp) ==
  LET ps == timestamp.chars
      to == IF Blanks(ps) = {} THEN Len(ps)
            ELSE (CHOOSE k \in Blanks(ps) : \A j \in Blanks(ps) : k <= j) - 1
  IN Concat(SubSeq(ps, 1, to))

\* C20: after a successful search the normalized items are as many as the
\* raw items and in their order; the i-th has link = url, snippet =
\* description, channel = website_name, image = the url of the first image
\* and date = the timestamp up to its first blank ("2024-01-01 00:00:00"
\* gives "2024-01-01"); a missing field is undefined in the output, and the
\* request goes on to its completion call.
C20_Normalization ==
  \A r \in Requests :
    search[r] = "ok" =>
      /\ Len(results[r]) = Len(df[r].items)
      /\ \A i \in 1..Len(results[r]) :
           LET raw == df[r].items[i]
               out == results[r][i]
           IN /\ out.type = raw.type
              /\ out.title = raw.title
              /\ out.link = raw.url
              /\ out.snippet = raw.description
              /\ out.channel = raw.website_name
              /\ out.image = IF raw.images.isArray /\ raw.images.list # <<>>
                             THEN raw.images.list[1].url ELSE Undef
              /\ out.date = IF raw.timestamp = Undef THEN Undef
                            ELSE Str(DatePart(raw.timestamp))
              /\ raw.timestamp = Chars(<<"2024-01-01", " ", "00:00:00">>) =>
                   out.date = Str("2024-01-01")
      /\ HistoryWellFormed(r) =>
           /\ calls[r].completion = 1
           /\ Prompt(r, 1)[2].content = Stringify(results[r])

\* a search answer of two items normalized: the first with the timestamp
\* "2024-01-01 00:00:00", the second with every field missing
C20_Witness ==
  \E r \in Requests :
    /\ search[r] = "ok"
    /\ Len(results[r]) = 2
    /\ df[r].items[1].timestamp = Chars(<<"2024-01-01", " ", "00:00:00">>)
    /\ results[r][1].date = Str("2024-01-01")
    /\ df[r].items[2].url = Undef /\ df[r].items[2].timestamp = Undef
    /\ results[r][2].date = Undef
    /\ calls[r].completion = 1

\* C18: isTyping is true exactly while an IME composition is in progress;
\* the keyboard invokes the send pathway only on Enter without Shift while
\* isTyping is false, and every invocation, from the keyboard or from the
\* send button, passes the draft, the visible history and useWebSearch as
\* they are at the moment of the event.
C18_SendForwardsState ==
  [][/\ isTyping' = composing'
     /\ sent' # sent =>
          LET call == sent'[1]
          IN /\ call.messageContent = userInput
             /\ call.chatMessages = chatMessages
             /\ call.useWebSearch = useWebSearch
             /\ call.isRegeneration = FALSE
             /\ call.via \in {"handleKeyDown", "onClick"}
             /\ call.via = "handleKeyDown" =>
                  /\ call.key = "Enter" /\ ~call.shiftKey
                  /\ ~isTyping /\ ~composing]_vars

\* Enter has sent a draft with the toggle on and a history on screen
C18_Witness ==
  /\ sent # <<>>
  /\ sent[1].via = "handleKeyDown"
  /\ sent[1].useWebSearch
  /\ sent[1].messageContent = "weather in Paris"
  /\ sent[1].chatMessages = <<"hi", "hello">>

\* C19: the composer never invokes the send pathway with an empty draft,
\* neither from the send button nor from Enter without Shift.
C19_NeverSendsEmpty == sent # <<>> => sent[1].messageContent # ""

\* two concurrent requests with the same body
SpecRace == InitRace /\ [][Next]_vars

====
